---- MODULE Spec2Model ----
(***************************************************************************)
(* A model of the netunicorn connector template:                           *)
(*   - ConnectorTemplate (connector_name.py): the connector object, its    *)
(*     lifecycle hooks and its batch operations;                           *)
(*   - the REST gateway (connector_name/__main__.py): the endpoint         *)
(*     handlers that parse the context headers and call the connector.     *)
(*                                                                         *)
(* Python values are modelled as follows.  A str that the code parses is a *)
(* sequence of one-character strings; any other str is a TLA+ string.      *)
(* None is the string "None" where a str is expected.  A dict is a         *)
(* function over its key set.  A call's outcome is a record                *)
(*   [raised, value, printed, self]                                        *)
(* with raised = "none" when the call returned, value the returned dict    *)
(* (the empty function when nothing or None was returned), printed the     *)
(* lines the call wrote to stdout before it returned or raised, and self   *)
(* the connector object as the call left it.                               *)
(***************************************************************************)
EXTENDS Integers, Sequences, FiniteSets, TLC

VARIABLES
    debug,        \* Python's __debug__: FALSE when run with -O (assert statements are removed)
    ctorArgs,     \* the arguments ConnectorTemplate(...) was constructed with
    conn,         \* the connector object: its fields, or the exception __init__ raised
    initialized,  \* history: connector.initialize() was called and shutdown() was not called since
    experiment,   \* the deployments of the experiment, owned by the orchestrator
    call,         \* the last call a host made on the connector directly (op, args, outcome)
    req           \* the gateway's requests in flight, per caller

vars == <<debug, ctorArgs, conn, initialized, experiment, call, req>>

-----------------------------------------------------------------------------
(* Bounds of the model. *)

MaxBatch == 2
MaxEnvVars == 3
NumCallers == 2

-----------------------------------------------------------------------------
(* json.loads, on texts over a small alphabet: whitespace, null, numbers,  *)
(* strings without escapes, and objects with string keys.                  *)

Digits == {"0", "1", "2", "3", "4", "5", "6", "7", "8", "9"}

JNone == [t |-> "None", items |-> <<>>]
JNum(ds) == [t |-> "int", items |-> ds]
JStr(cs) == [t |-> "str", items |-> cs]
JDict(kvs) == [t |-> "dict", items |-> kvs]

ParseFail == [ok |-> FALSE, v |-> JNone, i |-> 0]
ParseOk(v, i) == [ok |-> TRUE, v |-> v, i |-> i]

RECURSIVE SkipWs(_, _)
SkipWs(s, i) ==
    IF i <= Len(s) /\ s[i] = " " THEN SkipWs(s, i + 1) ELSE i

RECURSIVE ScanDigits(_, _)
ScanDigits(s, i) ==
    IF i <= Len(s) /\ s[i] \in Digits THEN ScanDigits(s, i + 1) ELSE i

\* the index of the closing quote of a string whose first character is at i, or 0
RECURSIVE ScanString(_, _)
ScanString(s, i) ==
    IF i > Len(s) THEN 0
    ELSE IF s[i] = "\"" THEN i
    ELSE ScanString(s, i + 1)

IsLiteralAt(s, i, lit) ==
    /\ i + Len(lit) - 1 <= Len(s)
    /\ SubSeq(s, i, i + Len(lit) - 1) = lit

RECURSIVE ParseValue(_, _)
RECURSIVE ParseMembers(_, _, _)

\* "key" : value { , "key" : value } "}" with i at the first key's quote
ParseMembers(s, i, acc) ==
    IF i > Len(s) \/ s[i] # "\"" THEN ParseFail
    ELSE
        LET q == ScanString(s, i + 1) IN
        IF q = 0 THEN ParseFail
        ELSE
            LET c == SkipWs(s, q + 1) IN
            IF c > Len(s) \/ s[c] # ":" THEN ParseFail
            ELSE
                LET r == ParseValue(s, SkipWs(s, c + 1)) IN
                IF ~r.ok THEN ParseFail
                ELSE
                    LET n == SkipWs(s, r.i)
                        kvs == Append(acc, <<SubSeq(s, i + 1, q - 1), r.v>>)
                    IN
                    IF n > Len(s) THEN ParseFail
                    ELSE IF s[n] = "}" THEN ParseOk(JDict(kvs), n + 1)
                    ELSE IF s[n] = "," THEN ParseMembers(s, SkipWs(s, n + 1), kvs)
                    ELSE ParseFail

ParseValue(s, i) ==
    IF i > Len(s) THEN ParseFail
    ELSE IF IsLiteralAt(s, i, <<"n", "u", "l", "l">>) THEN ParseOk(JNone, i + 4)
    ELSE IF s[i] \in Digits THEN
        LET e == ScanDigits(s, i) IN
        \* a leading zero ends the number: "01" is an error
        IF s[i] = "0" THEN ParseOk(JNum(<<"0">>), i + 1)
        ELSE ParseOk(JNum(SubSeq(s, i, e - 1)), e)
    ELSE IF s[i] = "\"" THEN
        LET q == ScanString(s, i + 1) IN
        IF q = 0 THEN ParseFail ELSE ParseOk(JStr(SubSeq(s, i + 1, q - 1)), q + 1)
    ELSE IF s[i] = "{" THEN
        LET n == SkipWs(s, i + 1) IN
        IF n <= Len(s) /\ s[n] = "}" THEN ParseOk(JDict(<<>>), n + 1)
        ELSE ParseMembers(s, n, <<>>)
    ELSE ParseFail

\* json.loads(s): the value, or JSONDecodeError
json_loads(s) ==
    LET r == ParseValue(s, SkipWs(s, 1)) IN
    IF r.ok /\ SkipWs(s, r.i) = Len(s) + 1
    THEN [raised |-> "none", v |-> r.v]
    ELSE [raised |-> "JSONDecodeError", v |-> JNone]

\* Python's truth value of a parsed JSON value
Truthy(v) ==
    CASE v.t = "None" -> FALSE
      [] v.t = "int" -> v.items # <<"0">>
      [] OTHER -> v.items # <<>>

-----------------------------------------------------------------------------
(* The data the connector reads: environment definitions, deployments and  *)
(* stop requests.  A field the class does not have is absent from the      *)
(* record, and reading it raises AttributeError.                           *)

\* runtime_context.environment_variables with n user-declared variables, in dict order
UserVars(n) == [i \in 1..n |-> [name |-> i, val |-> "v"]]

RuntimeContext(n) == [ports_mapping |-> "{}", environment_variables |-> UserVars(n)]

DockerImage(n) ==
    [type |-> "DockerImage", image |-> "img", commands |-> <<>>,
     runtime_context |-> RuntimeContext(n)]

ShellExecution(n) ==
    [type |-> "ShellExecution", commands |-> <<"cmd">>,
     runtime_context |-> RuntimeContext(n)]

HasAttr(obj, attr) == attr \in DOMAIN obj

Deployment(id, node, env, prepared) ==
    [executor_id |-> id, node |-> node, environment_definition |-> env, prepared |-> prepared]

StopExecutorRequest(id, node) == [executor_id |-> id, node_name |-> node]

Success(v) == [tag |-> "Success", value |-> v]
Failure(v) == [tag |-> "Failure", value |-> v]

\* result[key] = value on a dict
DictSet(d, key, value) ==
    [k \in DOMAIN d \cup {key} |-> IF k = key THEN value ELSE d[k]]

Returned(self, value, printed) ==
    [raised |-> "none", value |-> value, printed |-> printed, self |-> self]
Raised(self, exc, printed) ==
    [raised |-> exc, value |-> <<>>, printed |-> printed, self |-> self]

-----------------------------------------------------------------------------
(* ConnectorTemplate.__init__ *)

\* what open(configuration) and yaml.safe_load find: configuration is None, names no
\* file, or names a file whose YAML document is a mapping or a string
CtorFailureOf(configuration) ==
    CASE configuration.kind = "None" -> "TypeError"
      [] configuration.kind = "missing" -> "FileNotFoundError"
      [] configuration.kind = "mapping" -> "TypeError"
      [] OTHER -> json_loads(configuration.text).raised

Construct(args) ==
    IF CtorFailureOf(args.configuration) # "none"
    THEN [state |-> "raised", exc |-> CtorFailureOf(args.configuration),
          connector_name |-> args.connector_name, configuration |-> JNone,
          netunicorn_gateway |-> ""]
    ELSE [state |-> "constructed", exc |-> "none",
          connector_name |-> args.connector_name,
          configuration |-> json_loads(args.configuration.text).v,
          netunicorn_gateway |-> args.netunicorn_gateway]

-----------------------------------------------------------------------------
(* The lifecycle hooks: each body is `pass`. *)

initialize(self) == Returned(self, <<>>, <<>>)

health(self) == Returned(self, <<>>, <<>>)

shutdown(self) == Returned(self, <<>>, <<>>)

-----------------------------------------------------------------------------
(* get_nodes: the first return statement, a countable pool. *)

NodeCount == 3

get_nodes(self) ==
    Returned(self,
             [i \in 1..NodeCount |->
                 [name |-> <<"node-", i - 1>>, cpu |-> 4, memory |-> 16, gpu |-> 0]],
             <<>>)

-----------------------------------------------------------------------------
(* deploy *)

\* the loop body: prints the executor id and the image or the commands
DeployPrints(d) ==
    <<d.executor_id>> \o
    (IF d.environment_definition.type = "DockerImage"
        THEN <<d.environment_definition.image>>
        ELSE IF d.environment_definition.type = "ShellExecution"
        THEN <<"commands">>
        ELSE <<>>)

RECURSIVE DeployLoop(_, _)
DeployLoop(deployments, i) ==
    IF i > Len(deployments) THEN <<>>
    ELSE DeployPrints(deployments[i]) \o DeployLoop(deployments, i + 1)

deploy(self, deployments) ==
    Returned(self,
             [id \in {deployments[i].executor_id : i \in 1..Len(deployments)} |->
                 Success("success message")],
             DeployLoop(deployments, 1))

-----------------------------------------------------------------------------
(* execute *)

Lit(text) == [kind |-> "lit", name |-> text, idx |-> 0, val |-> ""]
EnvTok(name, idx, val) == [kind |-> "env", name |-> name, idx |-> idx, val |-> val]

\* the adjacent string literals of lines 174-178, which Python concatenates into
\* one string before .join is applied to it
LaunchPrefix(self, experiment_id, d) ==
    << Lit("docker run -d -p"), Lit(d.environment_definition.runtime_context.ports_mapping),
       Lit("-e"), EnvTok("NETUNICORN_GATEWAY_ENDPOINT", 0, self.netunicorn_gateway),
       Lit("-e"), EnvTok("NETUNICORN_EXECUTOR_ID", 0, d.executor_id),
       Lit("-e"), EnvTok("NETUNICORN_EXPERIMENT_ID", 0, experiment_id),
       Lit("-e") >>

\* sep.join(items)
RECURSIVE Join(_, _, _)
Join(sep, items, i) ==
    IF i > Len(items) THEN <<>>
    ELSE IF i = Len(items) THEN <<items[i]>>
    ELSE <<items[i]>> \o sep \o Join(sep, items, i + 1)

UserVarToks(d) ==
    LET ev == d.environment_definition.runtime_context.environment_variables IN
    [i \in 1..Len(ev) |-> EnvTok("user", ev[i].name, ev[i].val)]

\* the line print() writes: its first argument, then its second
LaunchCommand(self, experiment_id, d) ==
    Join(LaunchPrefix(self, experiment_id, d), UserVarToks(d), 1)
    \o << Lit("--name"), Lit(d.executor_id), Lit(d.environment_definition.image) >>

\* the two if statements of the loop body, neither of which leaves the iteration
ExecuteChecks(result, d) ==
    LET r1 == IF ~d.prepared
              THEN DictSet(result, d.executor_id, Failure("skipped"))
              ELSE result
    IN IF d.environment_definition.type # "DockerImage"
       THEN DictSet(r1, d.executor_id, Failure("not a docker image"))
       ELSE r1

RECURSIVE ExecuteLoop(_, _, _, _, _, _, _)
ExecuteLoop(self, dbg, experiment_id, deployments, i, result, printed) ==
    IF i > Len(deployments) THEN Returned(self, result, printed)
    ELSE
        LET d == deployments[i]
            checked == ExecuteChecks(result, d)
        IN
        IF dbg /\ d.node # "local" THEN Raised(self, "AssertionError", printed)
        ELSE IF ~HasAttr(d.environment_definition, "image")
        THEN Raised(self, "AttributeError", printed)
        ELSE ExecuteLoop(self, dbg, experiment_id, deployments, i + 1,
                         DictSet(checked, d.executor_id, Success("None")),
                         Append(printed, LaunchCommand(self, experiment_id, d)))

\* execute that keeps the experiment it serves on the connector object
execute_keeping_experiment(self, dbg, experiment_id, deployments) ==
    LET mine == [self EXCEPT !.netunicorn_gateway = experiment_id] IN
    ExecuteLoop(mine, dbg, experiment_id, deployments, 1, <<>>, <<>>)

execute(self, dbg, experiment_id, deployments) ==
    ExecuteLoop(self, dbg, experiment_id, deployments, 1, <<>>, <<>>)

-----------------------------------------------------------------------------
(* stop_executors *)

RECURSIVE StopLoop(_, _, _, _, _, _)
StopLoop(self, dbg, requests_list, i, result, printed) ==
    IF i > Len(requests_list) THEN Returned(self, result, printed)
    ELSE
        LET request == requests_list[i] IN
        IF dbg /\ request.node_name # "local" THEN Raised(self, "AssertionError", printed)
        ELSE StopLoop(self, dbg, requests_list, i + 1,
                      DictSet(result, request.executor_id, Success("None")),
                      Append(printed, <<Lit("docker stop"), Lit(request.executor_id)>>))

\* cancellation_context.get("reason") needs a dict: None, an int, a str have no get
stop_executors(self, dbg, requests_list, cancellation_context) ==
    IF cancellation_context.t # "dict" THEN Raised(self, "AttributeError", <<>>)
    ELSE StopLoop(self, dbg, requests_list, 1, <<>>, <<<<Lit("reason")>>>>)

-----------------------------------------------------------------------------
(* cleanup *)

RECURSIVE CleanupLoop(_, _, _, _)
CleanupLoop(self, deployments, i, printed) ==
    IF i > Len(deployments) THEN Returned(self, <<>>, printed)
    ELSE
        LET d == deployments[i]
            rm == Append(printed, <<Lit("docker rm"), Lit(d.executor_id)>>)
        IN
        IF ~HasAttr(d.environment_definition, "image")
        THEN Raised(self, "AttributeError", rm)
        ELSE CleanupLoop(self, deployments, i + 1,
                         Append(rm, <<Lit("docker rmi"), Lit(d.environment_definition.image)>>))

cleanup(self, experiment_id, deployments) ==
    CleanupLoop(self, deployments, 1, <<>>)

-----------------------------------------------------------------------------
(* The gateway's helpers. *)

\* Optional[str]: a header that is absent (None) or present with its text
NoHeader == [some |-> FALSE, s |-> <<>>]
Header(s) == [some |-> TRUE, s |-> s]

\* parse_context that swallows the decoding error and goes on without a context
parse_context_lenient(json_str) ==
    IF ~json_str.some \/ json_str.s = <<>> \/ json_str.s = <<"n", "u", "l", "l">>
    THEN [raised |-> "none", v |-> JNone]
    ELSE [raised |-> "none", v |-> json_loads(json_str.s).v]

parse_context(json_str) ==
    IF ~json_str.some \/ json_str.s = <<>> \/ json_str.s = <<"n", "u", "l", "l">>
    THEN [raised |-> "none", v |-> JNone]
    ELSE IF json_loads(json_str.s).raised = "JSONDecodeError"
    THEN [raised |-> "HTTPException", v |-> JNone]
    ELSE json_loads(json_str.s)

\* api_key_auth: 401 unless the bearer token is API_KEY
api_key_auth(api_key) == IF api_key # "API_KEY" THEN 401 ELSE 0

\* Response(media_type=..., content=json_str) with Response imported from
\* fastapi.openapi.models: a pydantic model whose required field `description` is
\* not given and whose `content` is to be a dict, so that constructing it raises
\* ValidationError, which the handler does not catch
OpenApiResponse(json_str) == "ValidationError"

\* the status of a handler that ends by returning Response(...) or by an exception
\* nothing catches
StatusOf(outcome) ==
    IF outcome.raised # "none" THEN 500
    ELSE IF OpenApiResponse(outcome.value) # "none" THEN 500
    ELSE 200

\* what the state keeps of a call's outcome
Seen(outcome) ==
    [raised |-> outcome.raised, value |-> outcome.value, printed |-> outcome.printed]

NoOutcome == [raised |-> "none", value |-> <<>>, printed |-> <<>>]

-----------------------------------------------------------------------------
(* The inputs. *)

ExecutorIds == {"e1", "e2"}
NodeNames == {"local", "node-0"}
ExperimentId == "exp1"

EnvDefs == {DockerImage(n) : n \in 0..MaxEnvVars} \cup {ShellExecution(0)}

Deployments ==
    {Deployment(id, node, env, p) :
        id \in ExecutorIds, node \in NodeNames, env \in EnvDefs, p \in BOOLEAN}

\* the deployment lists of an experiment, of up to MaxBatch deployments
Experiments == UNION {[1..n -> Deployments] : n \in 0..MaxBatch}

\* the stop requests for the executors of a deployment list, each naming any node
StopRequestsFor(deployments) ==
    {rs \in [1..Len(deployments) -> {StopExecutorRequest(id, node) :
                                        id \in ExecutorIds, node \in NodeNames}] :
        \A i \in 1..Len(deployments) : rs[i].executor_id = deployments[i].executor_id}

ConfigurationFiles ==
    { [kind |-> "None", text |-> <<>>],
      [kind |-> "missing", text |-> <<>>],
      [kind |-> "mapping", text |-> <<"k", ":", " ", "1">>],
      [kind |-> "string", text |-> <<"{", "k">>],
      [kind |-> "string", text |-> <<"{", "\"", "k", "\"", ":", " ", "1", "}">>] }

CtorArgSet ==
    {[connector_name |-> "name", configuration |-> f, netunicorn_gateway |-> "gw"] :
        f \in ConfigurationFiles}

\* the texts a context header or a request body may hold
Texts ==
    { <<>>,
      <<"n", "u", "l", "l">>,
      <<" ", "n", "u", "l", "l">>,
      <<"{", "}">>,
      <<"{", "\"", "r", "\"", ":", "\"", "x", "\"", "}">>,
      <<"{", "\"", "r", "\"", ":", "1", ",", " ", "\"", "s", "\"", ":", "n", "u", "l", "l", "}">>,
      <<"7">>,
      <<"{">>,
      <<"{", "\"", "r", "\"", "}">>,
      <<"n", "u", "l">> }

HeaderValues == {NoHeader} \cup {Header(t) : t \in Texts}

\* the cancellation contexts a host passes to the connector directly; the other
\* operations never read their contexts and are passed None
Contexts == {JNone, JDict(<< <<"reason", JStr(<<"x">>)>> >>)}

-----------------------------------------------------------------------------
(* The state after the module is loaded. *)

NoCall ==
    [op |-> "none", deployments |-> <<>>, requests_list |-> <<>>, context |-> JNone,
     was_initialized |-> FALSE, repeated |-> FALSE, outcome |-> NoOutcome]

Idle ==
    [pc |-> "idle", op |-> "none", body |-> <<>>,
     auth_hdr |-> NoHeader, ctx_hdr |-> NoHeader,
     auth_context |-> JNone, op_context |-> JNone,
     requests_list |-> <<>>, invoked |-> FALSE, was_initialized |-> FALSE,
     status |-> 0, outcome |-> NoOutcome]

Callers == 1..NumCallers

InitWith(experiments) ==
    /\ debug \in BOOLEAN
    /\ ctorArgs \in CtorArgSet
    /\ conn = Construct(ctorArgs)
    /\ experiment \in experiments
    /\ initialized = FALSE
    /\ call = NoCall
    /\ req = [c \in Callers |-> Idle]

Init == InitWith(Experiments)

-----------------------------------------------------------------------------
(* A host that holds the connector object and calls its methods, one call  *)
(* at a time.  deploy, execute and cleanup are given the experiment's      *)
(* deployments; stop_executors is given a request per deployment.          *)

\* the call `op` with these arguments is made and ends with `outcome`
HostCall(op, deployments, requests_list, context, outcome) ==
    /\ conn.state = "constructed"
    /\ call' = [op |-> op, deployments |-> deployments, requests_list |-> requests_list,
                context |-> context, was_initialized |-> initialized,
                repeated |-> /\ call.op = op
                             /\ call.deployments = deployments
                             /\ call.requests_list = requests_list
                             /\ call.context = context,
                outcome |-> Seen(outcome)]
    /\ conn' = outcome.self
    /\ UNCHANGED <<debug, ctorArgs, experiment, req>>

Initialize ==
    /\ HostCall("initialize", <<>>, <<>>, JNone, initialize(conn))
    /\ initialized' = TRUE

Health ==
    /\ HostCall("health", <<>>, <<>>, JNone, health(conn))
    /\ UNCHANGED initialized

Shutdown ==
    /\ HostCall("shutdown", <<>>, <<>>, JNone, shutdown(conn))
    /\ initialized' = FALSE

GetNodes ==
    /\ HostCall("get_nodes", <<>>, <<>>, JNone, get_nodes(conn))
    /\ UNCHANGED initialized

Deploy ==
    /\ HostCall("deploy", experiment, <<>>, JNone, deploy(conn, experiment))
    /\ UNCHANGED initialized

Execute ==
    /\ HostCall("execute", experiment, <<>>, JNone,
                execute(conn, debug, ExperimentId, experiment))
    /\ UNCHANGED initialized

StopExecutors ==
    /\ \E rs \in StopRequestsFor(experiment), ctx \in Contexts :
          HostCall("stop_executors", <<>>, rs, ctx, stop_executors(conn, debug, rs, ctx))
    /\ UNCHANGED initialized

Cleanup ==
    /\ HostCall("cleanup", experiment, <<>>, JNone, cleanup(conn, ExperimentId, experiment))
    /\ UNCHANGED initialized

Next ==
    \/ Initialize
    \/ Health
    \/ Shutdown
    \/ GetNodes
    \/ Deploy
    \/ Execute
    \/ StopExecutors
    \/ Cleanup

Spec == Init /\ [][Next]_vars

-----------------------------------------------------------------------------
(* The gateway.  A request is received (its dependency api_key_auth runs   *)
(* first), its handler runs statement by statement, and its response is    *)
(* sent.  Requests of different callers interleave between the steps.      *)
(* deployments_data is the experiment's deployment list.                   *)

Request(op, body, auth_hdr, ctx_hdr, requests_list) ==
    [Idle EXCEPT !.op = op, !.body = body, !.auth_hdr = auth_hdr, !.ctx_hdr = ctx_hdr,
                 !.requests_list = requests_list]

\* the requests a caller may send, with bodies, header values (authentication,
\* deployment or execution, cancellation) and stop requests from the given sets
IncomingRequests(bodies, authHdrs, ctxHdrs, cancelHdrs, stopLists) ==
    {Request("initialize", b, NoHeader, NoHeader, <<>>) : b \in bodies}
    \cup {Request(op, <<>>, NoHeader, NoHeader, <<>>) : op \in {"health", "shutdown", "cleanup"}}
    \cup {Request("get_nodes", <<>>, a, NoHeader, <<>>) : a \in authHdrs}
    \cup {Request(op, <<>>, a, x, <<>>) :
            op \in {"deploy", "execute"}, a \in authHdrs, x \in ctxHdrs}
    \cup {Request("stop_executors", <<>>, a, x, rs) :
            a \in authHdrs, x \in cancelHdrs, rs \in stopLists}

\* the first statement of each handler
FirstPc(op) ==
    CASE op = "initialize" -> "init"
      [] op \in {"get_nodes", "deploy", "execute", "stop_executors"} -> "parse_auth"
      [] OTHER -> "invoke"

Finish(r, status) == [r EXCEPT !.pc = "done", !.status = status]

\* the handler's call of a connector method, which ends with `outcome`
Invoke(r, outcome, status) ==
    [r EXCEPT !.pc = "done", !.invoked = TRUE, !.was_initialized = initialized,
              !.outcome = Seen(outcome), !.status = status]

GwReceive(c, requests, api_keys) ==
    /\ conn.state = "constructed"
    /\ req[c].pc = "idle"
    /\ \E r \in requests, api_key \in api_keys :
          req' = [req EXCEPT ![c] =
                     IF api_key_auth(api_key) # 0
                     THEN Finish(r, api_key_auth(api_key))
                     ELSE [r EXCEPT !.pc = FirstPc(r.op)]]
    /\ UNCHANGED <<debug, ctorArgs, conn, initialized, experiment, call>>

\* auth_context = await parse_context(netunicorn_auth_context)
GwParseAuth(c) ==
    /\ req[c].pc = "parse_auth"
    /\ LET parsed == parse_context(req[c].auth_hdr) IN
       req' = [req EXCEPT ![c] =
                  IF parsed.raised # "none" THEN Finish(req[c], 400)
                  ELSE [req[c] EXCEPT !.auth_context = parsed.v,
                                      !.pc = IF req[c].op = "get_nodes"
                                             THEN "invoke" ELSE "parse_ctx"]]
    /\ UNCHANGED <<debug, ctorArgs, conn, initialized, experiment, call>>

\* deployment_context, execution_context, cancellation_context = await parse_context(...)
GwParseContext(c) ==
    /\ req[c].pc = "parse_ctx"
    /\ LET parsed == parse_context(req[c].ctx_hdr) IN
       req' = [req EXCEPT ![c] =
                  IF parsed.raised # "none" THEN Finish(req[c], 400)
                  ELSE [req[c] EXCEPT !.op_context = parsed.v, !.pc = "invoke"]]
    /\ UNCHANGED <<debug, ctorArgs, conn, initialized, experiment, call>>

\* init: json.loads of the body is outside the try; initialize(**body) is inside it,
\* and ** needs a mapping
GwInit(c) ==
    /\ req[c].pc = "init"
    /\ LET body == json_loads(req[c].body) IN
       IF body.raised # "none"
       THEN /\ req' = [req EXCEPT ![c] = Finish(req[c], 500)]
            /\ UNCHANGED <<conn, initialized>>
       ELSE IF ~Truthy(body.v)
       THEN /\ req' = [req EXCEPT ![c] = Finish(req[c], 204)]
            /\ UNCHANGED <<conn, initialized>>
       ELSE IF body.v.t # "dict"
       THEN /\ req' = [req EXCEPT ![c] = Finish(req[c], 500)]
            /\ UNCHANGED <<conn, initialized>>
       ELSE /\ req' = [req EXCEPT ![c] = Invoke(req[c], initialize(conn), 204)]
            /\ conn' = initialize(conn).self
            /\ initialized' = TRUE
    /\ UNCHANGED <<debug, ctorArgs, experiment, call>>

\* health: `healthy, text = await connector.health()` unpacks what health returned,
\* which is None: TypeError, which nothing catches
GwHealth(c) ==
    /\ req[c].pc = "invoke" /\ req[c].op = "health"
    /\ req' = [req EXCEPT ![c] = Invoke(req[c], health(conn), 500)]
    /\ conn' = health(conn).self
    /\ UNCHANGED <<debug, ctorArgs, initialized, experiment, call>>

GwShutdown(c) ==
    /\ req[c].pc = "invoke" /\ req[c].op = "shutdown"
    /\ req' = [req EXCEPT ![c] = Invoke(req[c], shutdown(conn), 204)]
    /\ conn' = shutdown(conn).self
    /\ initialized' = FALSE
    /\ UNCHANGED <<debug, ctorArgs, experiment, call>>

GwGetNodes(c) ==
    /\ req[c].pc = "invoke" /\ req[c].op = "get_nodes"
    /\ req' = [req EXCEPT ![c] = Invoke(req[c], get_nodes(conn), StatusOf(get_nodes(conn)))]
    /\ conn' = get_nodes(conn).self
    /\ UNCHANGED <<debug, ctorArgs, initialized, experiment, call>>

GwDeploy(c) ==
    /\ req[c].pc = "invoke" /\ req[c].op = "deploy"
    /\ LET outcome == deploy(conn, experiment) IN
       /\ req' = [req EXCEPT ![c] = Invoke(req[c], outcome, StatusOf(outcome))]
       /\ conn' = outcome.self
    /\ UNCHANGED <<debug, ctorArgs, initialized, experiment, call>>

GwExecute(c) ==
    /\ req[c].pc = "invoke" /\ req[c].op = "execute"
    /\ LET outcome == execute(conn, debug, ExperimentId, experiment) IN
       /\ req' = [req EXCEPT ![c] = Invoke(req[c], outcome, StatusOf(outcome))]
       /\ conn' = outcome.self
    /\ UNCHANGED <<debug, ctorArgs, initialized, experiment, call>>

GwStopExecutors(c) ==
    /\ req[c].pc = "invoke" /\ req[c].op = "stop_executors"
    /\ LET outcome == stop_executors(conn, debug, req[c].requests_list, req[c].op_context) IN
       /\ req' = [req EXCEPT ![c] = Invoke(req[c], outcome, StatusOf(outcome))]
       /\ conn' = outcome.self
    /\ UNCHANGED <<debug, ctorArgs, initialized, experiment, call>>

\* cleanup returns None: 200, or 500 when the connector raised
GwCleanup(c) ==
    /\ req[c].pc = "invoke" /\ req[c].op = "cleanup"
    /\ LET outcome == cleanup(conn, ExperimentId, experiment) IN
       /\ req' = [req EXCEPT ![c] =
                     Invoke(req[c], outcome, IF outcome.raised # "none" THEN 500 ELSE 200)]
       /\ conn' = outcome.self
    /\ UNCHANGED <<debug, ctorArgs, initialized, experiment, call>>

\* the response is sent
GwReply(c) ==
    /\ req[c].pc = "done"
    /\ req' = [req EXCEPT ![c] = Idle]
    /\ UNCHANGED <<debug, ctorArgs, conn, initialized, experiment, call>>

GwStep(c) ==
    \/ GwParseAuth(c)
    \/ GwParseContext(c)
    \/ GwInit(c)
    \/ GwHealth(c)
    \/ GwShutdown(c)
    \/ GwGetNodes(c)
    \/ GwDeploy(c)
    \/ GwExecute(c)
    \/ GwStopExecutors(c)
    \/ GwCleanup(c)
    \/ GwReply(c)

(* One request at a time, with every header text. *)

ApiKeys == {"API_KEY", "other"}

GatewayExperiments ==
    { <<>>,
      <<Deployment("e1", "local", DockerImage(0), TRUE)>>,
      <<Deployment("e1", "node-0", ShellExecution(0), FALSE)>>,
      <<Deployment("e1", "local", DockerImage(1), TRUE),
        Deployment("e2", "node-0", DockerImage(0), TRUE)>> }

InitGateway == InitWith(GatewayExperiments)

NextGateway ==
    \/ GwReceive(1, IncomingRequests(Texts, HeaderValues, HeaderValues, HeaderValues,
                                     StopRequestsFor(experiment)),
                 ApiKeys)
    \/ GwStep(1)

SpecGateway == InitGateway /\ [][NextGateway]_vars

(* NumCallers callers at once, with few inputs. *)

ConcurrentExperiments ==
    { <<Deployment("e1", "local", DockerImage(2), TRUE),
        Deployment("e2", "node-0", DockerImage(0), TRUE)>> }

\* the stop requests that name each executor's own node
ConcurrentStopLists ==
    { [i \in 1..Len(experiment) |->
          StopExecutorRequest(experiment[i].executor_id, experiment[i].node)] }

InitConcurrent == InitWith(ConcurrentExperiments)

NextConcurrent ==
    \E c \in Callers :
        \/ GwReceive(c, IncomingRequests({<<"{", "\"", "r", "\"", ":", "1", "}">>},
                                         {NoHeader},
                                         {NoHeader},
                                         {NoHeader, Header(<<"{", "}">>)},
                                         ConcurrentStopLists),
                     {"API_KEY"})
        \/ GwStep(c)

SpecConcurrent == InitConcurrent /\ [][NextConcurrent]_vars

-----------------------------------------------------------------------------
(* The claims about the connector's methods, on the host's calls (Spec).   *)

Ids(items) == {items[i].executor_id : i \in 1..Len(items)}

DistinctIds(items) ==
    \A i, j \in 1..Len(items) : items[i].executor_id = items[j].executor_id => i = j

\* the items a batch call was given
ItemsOf(c) == IF c.op = "stop_executors" THEN c.requests_list ELSE c.deployments

\* C1: deploy, execute and stop_executors return, for every input list, a mapping
\* whose key set is exactly the set of the input items' executor ids.
C1_KeySetIsInputIds ==
    call.op \in {"deploy", "execute", "stop_executors"} =>
        /\ call.outcome.raised = "none"
        /\ DOMAIN call.outcome.value = Ids(ItemsOf(call))

\* C2: execute yields Failure for every deployment that is not prepared, whatever
\* its environment definition and whatever the other items.
C2_UnpreparedIsFailure ==
    call.op = "execute" =>
        \A i \in 1..Len(call.deployments) :
            ~call.deployments[i].prepared =>
                /\ call.outcome.raised = "none"
                /\ call.deployments[i].executor_id \in DOMAIN call.outcome.value
                /\ call.outcome.value[call.deployments[i].executor_id].tag = "Failure"

\* the executor of request i runs on the node of the experiment's deployment i
NodeMismatch(c, i) == c.requests_list[i].node_name # experiment[i].node

\* C3: stop_executors, given a request whose node_name is not the node its executor
\* runs on, returns a mapping with Failure for that executor, and does not raise.
C3_NodeMismatchIsFailure ==
    (call.op = "stop_executors" /\ call.context.t = "dict") =>
        \A i \in 1..Len(call.requests_list) :
            NodeMismatch(call, i) =>
                /\ call.outcome.raised = "none"
                /\ call.requests_list[i].executor_id \in DOMAIN call.outcome.value
                /\ call.outcome.value[call.requests_list[i].executor_id].tag = "Failure"

\* the outcome of the batch call c made with item i alone
AloneInBatch(c, i) ==
    CASE c.op = "deploy" -> deploy(conn, <<c.deployments[i]>>)
      [] c.op = "execute" -> execute(conn, debug, ExperimentId, <<c.deployments[i]>>)
      [] OTHER -> stop_executors(conn, debug, <<c.requests_list[i]>>, c.context)

SucceedsAlone(c, i) ==
    LET alone == AloneInBatch(c, i)
        id == ItemsOf(c)[i].executor_id
    IN /\ alone.raised = "none"
       /\ alone.value[id].tag = "Success"

\* C4: when exactly one item of a batch fails and the others succeed on their own,
\* the call returns Success for the others and Failure for that one.
C4_OneFailureIsIsolated ==
    call.op \in {"deploy", "execute", "stop_executors"} =>
        LET items == ItemsOf(call)
            failing == {i \in 1..Len(items) : ~SucceedsAlone(call, i)}
        IN (DistinctIds(items) /\ Cardinality(failing) = 1) =>
              /\ call.outcome.raised = "none"
              /\ DOMAIN call.outcome.value = Ids(items)
              /\ \A i \in 1..Len(items) :
                    call.outcome.value[items[i].executor_id].tag =
                        IF i \in failing THEN "Failure" ELSE "Success"

\* C5: get_nodes, deploy, execute, stop_executors and cleanup, called while the
\* connector is not initialized, fail with NotInitializedError.
C5_UninitializedIsRefused ==
    ( /\ call.op \in {"get_nodes", "deploy", "execute", "stop_executors", "cleanup"}
      /\ ~call.was_initialized ) =>
        call.outcome.raised = "NotInitializedError"

\* C6: cleanup does not raise, for deployments of either environment definition,
\* deployed or not, and also when it is called again with the same arguments.
C6_CleanupNeverRaises ==
    call.op = "cleanup" => call.outcome.raised = "none"

Occurrences(line, tok) == Cardinality({k \in 1..Len(line) : line[k] = tok})

Runnable(d) ==
    d.prepared /\ d.environment_definition.type = "DockerImage" /\ d.node = "local"

\* C7: the launch command of every runnable deployment holds the three mandatory
\* variables and every user-declared variable, each exactly once.
C7_LaunchCommandHasEveryVariableOnce ==
    call.op = "execute" =>
        \A i \in 1..Len(call.deployments) :
            (Runnable(call.deployments[i]) /\ i <= Len(call.outcome.printed)) =>
                LET d == call.deployments[i]
                    line == call.outcome.printed[i]
                    user == d.environment_definition.runtime_context.environment_variables
                IN /\ Occurrences(line, EnvTok("NETUNICORN_GATEWAY_ENDPOINT", 0,
                                               conn.netunicorn_gateway)) = 1
                   /\ Occurrences(line, EnvTok("NETUNICORN_EXECUTOR_ID", 0,
                                               d.executor_id)) = 1
                   /\ Occurrences(line, EnvTok("NETUNICORN_EXPERIMENT_ID", 0,
                                               ExperimentId)) = 1
                   /\ \A k \in 1..Len(user) :
                         Occurrences(line, EnvTok("user", user[k].name, user[k].val)) = 1

-----------------------------------------------------------------------------
(* The claims about the gateway. *)

\* the connector as __init__ left it
AsConstructed == Construct(ctorArgs)

\* the outcome of request r's connector call, and its status, when no other request
\* has touched the connector
AloneOutcome(r) ==
    CASE r.op = "health" -> health(AsConstructed)
      [] r.op = "get_nodes" -> get_nodes(AsConstructed)
      [] r.op = "deploy" -> deploy(AsConstructed, experiment)
      [] r.op = "execute" -> execute(AsConstructed, debug, ExperimentId, experiment)
      [] OTHER -> stop_executors(AsConstructed, debug, r.requests_list,
                                 parse_context(r.ctx_hdr).v)

AloneStatus(r) == IF r.op = "health" THEN 500 ELSE StatusOf(AloneOutcome(r))

ConcurrentOps == {"get_nodes", "deploy", "execute", "stop_executors", "health"}

\* C8: under every interleaving of the callers' requests the connector's fields stay
\* as constructed, and each call of get_nodes, deploy, execute, stop_executors and
\* health ends as it ends when it runs alone with the same arguments.
C8_ConcurrentCallsDoNotInterfere ==
    /\ conn.connector_name = AsConstructed.connector_name
    /\ conn.configuration = AsConstructed.configuration
    /\ conn.netunicorn_gateway = AsConstructed.netunicorn_gateway
    /\ \A c \in Callers :
          (req[c].pc = "done" /\ req[c].invoked /\ req[c].op \in ConcurrentOps) =>
              /\ req[c].outcome = Seen(AloneOutcome(req[c]))
              /\ req[c].status = AloneStatus(req[c])

\* an execute has returned its mapping while another caller's stop_executors is
\* between its parsing and its connector call
C8_Witness ==
    \E c, d \in Callers :
        /\ c # d
        /\ req[c].pc = "done" /\ req[c].op = "execute" /\ req[c].invoked
        /\ req[c].outcome.raised = "none" /\ req[c].outcome.printed # <<>>
        /\ req[d].pc = "invoke" /\ req[d].op = "stop_executors"

\* the texts of Texts that are JSON documents
JsonTexts ==
    { <<"n", "u", "l", "l">>,
      <<" ", "n", "u", "l", "l">>,
      <<"{", "}">>,
      <<"{", "\"", "r", "\"", ":", "\"", "x", "\"", "}">>,
      <<"{", "\"", "r", "\"", ":", "1", ",", " ", "\"", "s", "\"", ":", "n", "u", "l", "l", "}">>,
      <<"7">> }

Malformed(h) == h.some /\ h.s # <<>> /\ h.s \notin JsonTexts

NoContext(h) == ~h.some \/ h.s = <<>> \/ h.s = <<"n", "u", "l", "l">>

ContextOps == {"get_nodes", "deploy", "execute", "stop_executors"}

\* the handler of request r has been entered (api_key_auth let it through)
Entered(r) == r.op \in ContextOps /\ r.pc # "idle" /\ r.status # 401

\* C9: a request of get_nodes, deploy, execute or stop_executors with a malformed
\* context header never reaches the connector and ends with 400; a header that is
\* absent, empty or "null" reaches the connector as None.
C9_MalformedContextIsClientError ==
    Entered(req[1]) =>
        /\ (Malformed(req[1].auth_hdr) \/ Malformed(req[1].ctx_hdr)) =>
              /\ ~req[1].invoked
              /\ req[1].pc # "invoke"
              /\ req[1].pc = "done" => req[1].status = 400
        /\ (req[1].invoked \/ req[1].pc = "invoke") =>
              /\ NoContext(req[1].auth_hdr) => req[1].auth_context = JNone
              /\ (req[1].op # "get_nodes" /\ NoContext(req[1].ctx_hdr)) =>
                    req[1].op_context = JNone

\* a stop_executors request whose authentication header parsed and whose
\* cancellation header is malformed has ended with 400 without a connector call
C9_Witness ==
    /\ req[1].op = "stop_executors" /\ req[1].pc = "done"
    /\ req[1].auth_hdr = Header(<<"{", "}">>) /\ req[1].auth_context = JDict(<<>>)
    /\ Malformed(req[1].ctx_hdr)
    /\ req[1].status = 400 /\ ~req[1].invoked

\* C10: stop_executors without a cancellation-context header still handles every
\* request of the list and returns the mapping of its results.
C10_CancellationContextIsOptional ==
    ( /\ req[1].op = "stop_executors" /\ req[1].pc = "done"
      /\ req[1].ctx_hdr = NoHeader
      /\ req[1].status \notin {400, 401} ) =>
        /\ req[1].invoked
        /\ req[1].outcome.raised = "none"
        /\ DOMAIN req[1].outcome.value = Ids(req[1].requests_list)

====
